---- MODULE Spec2Model ----
(***************************************************************************)
(* Recipe cost resolution of goblinomincs (recipe_analysis.py).            *)
(*                                                                         *)
(* The resolver is ordinary call-stack recursion:                          *)
(*   _calculate_crafting_cost_internal -> get_best_reagent_price           *)
(*     -> _get_craft_price_for_reagent -> _calculate_crafting_cost_internal*)
(* Its only cycle guard is `except RecursionError`, so the Python call     *)
(* stack and the interpreter's recursion limit are part of the state.      *)
(*                                                                         *)
(* Numbers: prices are exact integers (the code's floats, without          *)
(* rounding).  An optional value (Python None) is the empty sequence       *)
(* NoneV, a present value v is <<v>>.  An item's display name and its id   *)
(* denote the same item (the catalog files name every id consistently),    *)
(* so the market table is keyed by item as well.                           *)
(***************************************************************************)
EXTENDS Integers, Sequences, FiniteSets, TLC

----------------------------------------------------------------------------
(* Bounds of the model *)

\* Stack frames the caller leaves free beyond the least a recipe without
\* craftable reagents needs; the limits tried are MinLimit..MinLimit+MaxExtraFrames.
MaxExtraFrames == 6

\* Frames a call of get_vendor_price needs below its caller (json loading).
VendorFrames == 1

\* Frames a market-table lookup needs below its caller (pandas indexing is
\* deeper than the json loader).
MarketFrames == 2

\* The largest minimum profit percentage a caller passes.
MaxMinPct == 50

----------------------------------------------------------------------------
(* Program constants *)

\* pd.Timedelta(days=7)
Days7 == 7

----------------------------------------------------------------------------
(* Values *)

NoneV == <<>>

Some(v) == <<v>>

IsNone(x) == x = NoneV

Val(x) == x[1]

Items == {1, 2, 3}

EmptyMap == [x \in {} |-> 0]

RECURSIVE SumSeq(_)
SumSeq(s) == IF s = <<>> THEN 0 ELSE s[1] + SumSeq(Tail(s))

RECURSIVE SelectRows(_, _)
\* rows.loc[rows.index >= cutoff]: the rows kept, in table order
SelectRows(rows, cutoff) ==
    IF rows = <<>> THEN <<>>
    ELSE IF rows[1].ts >= cutoff
         THEN <<rows[1]>> \o SelectRows(Tail(rows), cutoff)
         ELSE SelectRows(Tail(rows), cutoff)

\* rows.index.max()
IndexMax(rows) == CHOOSE t \in {rows[k].ts : k \in 1..Len(rows)} :
                      \A k \in 1..Len(rows) : rows[k].ts <= t

\* rows["avg_price"].mean(); the series of SeriesChoices have integral means
Mean(rows) == SumSeq([k \in 1..Len(rows) |-> rows[k].avg_price]) \div Len(rows)

----------------------------------------------------------------------------
(* Inputs: market tables, vendor tables, recipe catalogs *)

Row(t, p) == [ts |-> t, avg_price |-> p]

\* One item's rows of the market table, in table order (timestamps in days).
SeriesChoices ==
    { <<>>,
      << Row(10, 2) >>,
      << Row(0, 9), Row(5, 5), Row(10, 1) >> }

MarketTables == [Items -> SeriesChoices]

\* vendor_items.json: item id -> vendor_price
VendorTables ==
    { EmptyMap,
      (3 :> 2),
      (2 :> 3) }

Reagent(i, q) == [id |-> i, quantity |-> q]

Recipe(i, rs) == [id |-> i, reagents |-> rs]

\* recipes.json: the ordered list of recipes
CatChain == << Recipe(1, << Reagent(2, 1), Reagent(3, 2) >>),
               Recipe(2, << Reagent(3, 1) >>) >>

CatCycle == << Recipe(1, << Reagent(2, 1) >>),
               Recipe(2, << Reagent(1, 2) >>),
               Recipe(3, << Reagent(1, 1) >>) >>

CatSelf == << Recipe(1, << Reagent(1, 1), Reagent(2, 1) >>),
              Recipe(2, << Reagent(3, 1) >>) >>

CatEmpty == << Recipe(1, << Reagent(2, 1), Reagent(3, 1) >>),
               Recipe(2, << >>) >>

\* item 3 is needed by recipe 1 directly and through item 2, and has a recipe
CatShared == << Recipe(1, << Reagent(2, 1), Reagent(3, 1) >>),
                Recipe(2, << Reagent(3, 1) >>),
                Recipe(3, << >>) >>

Catalogs == { CatChain, CatCycle, CatSelf, CatEmpty, CatShared }

MinLimit == 2 + MarketFrames

RecursionLimits == MinLimit .. (MinLimit + MaxExtraFrames)

\* the minimum percentages a caller passes: one that admits losses, the
\* default, and a high one
MinPcts == { -MaxMinPct, 0, MaxMinPct }

----------------------------------------------------------------------------
(* State *)

VARIABLES
    recipes,          \* the catalog file (load_recipes)
    vendor_items,     \* the vendor file (load_vendor_items)
    recursion_limit,  \* frames the interpreter allows below the top-level call
    df,               \* the market table passed to the running call
    call,             \* "none", "single" (calculate_crafting_cost), "batch"
    pc,               \* "idle", "running", "done", "fault"
    stack,            \* the call stack, outermost frame first
    cost_cache,       \* the cost_cache dict of the running call
    result,           \* what calculate_crafting_cost returned
    min_profit_pct,   \* argument of get_profitable_recipes
    batch_i,          \* position of the batch loop in recipes
    analyses,         \* the analysis of each recipe of the batch, in order
    profitable,       \* the list get_profitable_recipes builds and returns
    files,            \* the market data directory: the file of each item
    warned            \* the warnings issued so far

vars == << recipes, vendor_items, recursion_limit, df, call, pc, stack,
           cost_cache, result, min_profit_pct, batch_i, analyses, profitable,
           files, warned >>

\* what the resolver and the statistics read and never write
config == << recipes, vendor_items, recursion_limit, files, warned >>

batchVars == << min_profit_pct, batch_i, analyses, profitable >>

----------------------------------------------------------------------------
(* Pure functions of recipe_analysis.py and vendor_items.py *)

\* build_recipe_lookup: item id -> recipe, a later recipe of the list
\* replacing an earlier one with the same id
build_recipe_lookup(rs) ==
    [i \in {rs[k].id : k \in 1..Len(rs)} |->
        rs[CHOOSE k \in 1..Len(rs) :
              /\ rs[k].id = i
              /\ \A j \in 1..Len(rs) : rs[j].id = i => j <= k]]

\* Mutant: the vendor price is used only for items the market does not list.
get_vendor_price_unlisted(item_id) ==
    IF item_id \in DOMAIN vendor_items /\ df[item_id] = << >>
    THEN Some(vendor_items[item_id])
    ELSE NoneV

\* get_vendor_price: the fixed price, or None when not a vendor item
get_vendor_price(item_id) ==
    IF item_id \in DOMAIN vendor_items
    THEN Some(vendor_items[item_id])
    ELSE NoneV

\* The price pair of a market series: the last row's avg_price and the mean
\* over the rows not older than 7 days before the newest timestamp.
CurrentAnd7d(rows) ==
    LET current_price == rows[Len(rows)].avg_price
        cutoff_date   == IndexMax(rows) - Days7
        rows_7d       == SelectRows(rows, cutoff_date)
        price_7d      == IF rows_7d # <<>> THEN Mean(rows_7d) ELSE current_price
    IN  << Some(current_price), Some(price_7d) >>

\* _get_market_price_for_reagent: (current_price, 7d_avg_price) or (None, None)
_get_market_price_for_reagent(reagent_name, d) ==
    LET reagent_data == d[reagent_name]
    IN  IF reagent_data = <<>>
        THEN << NoneV, NoneV >>
        ELSE CurrentAnd7d(reagent_data)

\* Mutant: the last of the options with the least key (a tie goes to the
\* market).
MinByFirst_last(options) ==
    options[CHOOSE k \in 1..Len(options) :
               /\ \A j \in 1..Len(options) : Val(options[k][1]) <= Val(options[j][1])
               /\ \A j \in (k + 1)..Len(options) : Val(options[j][1]) > Val(options[k][1])]

\* Mutant: the options compared on their 7-day price.
MinByFirst_7d(options) ==
    options[CHOOSE k \in 1..Len(options) :
               /\ \A j \in 1..Len(options) : Val(options[k][2]) <= Val(options[j][2])
               /\ \A j \in 1..(k - 1) : Val(options[j][2]) > Val(options[k][2])]

\* min(options, key=lambda x: x[0]): the first option with the least key
MinByFirst(options) ==
    options[CHOOSE k \in 1..Len(options) :
               /\ \A j \in 1..Len(options) : Val(options[k][1]) <= Val(options[j][1])
               /\ \A j \in 1..(k - 1) : Val(options[j][1]) > Val(options[k][1])]

\* Mutant: without an option the price defaults to 0.
_choose_best_price_zero(craft_price, craft_price_7d, market_price, market_price_7d) ==
    LET options ==
            (IF ~IsNone(craft_price)
             THEN << << craft_price, craft_price_7d, "crafted" >> >>
             ELSE << >>)
            \o
            (IF ~IsNone(market_price)
             THEN << << market_price, market_price_7d, "auction" >> >>
             ELSE << >>)
    IN  IF options = << >>
        THEN << Some(0), Some(0), "missing" >>
        ELSE MinByFirst(options)

\* _choose_best_price: (best_price, best_price_7d, source)
_choose_best_price(craft_price, craft_price_7d, market_price, market_price_7d) ==
    LET options ==
            (IF ~IsNone(craft_price)
             THEN << << craft_price, craft_price_7d, "crafted" >> >>
             ELSE << >>)
            \o
            (IF ~IsNone(market_price)
             THEN << << market_price, market_price_7d, "auction" >> >>
             ELSE << >>)
    IN  IF options = << >>
        THEN << NoneV, NoneV, "missing" >>
        ELSE MinByFirst(options)

\* Mutant: the ratio is not scaled to a percentage.
Pct_ratio(profit, total_cost) ==
    IF total_cost > 0
    THEN [num |-> profit, den |-> total_cost]
    ELSE [num |-> 0, den |-> 1]

\* Mutant: the division is not guarded against a zero cost.
Pct_unguarded(profit, total_cost) ==
    [num |-> profit * 100, den |-> total_cost]

\* profit / total_cost * 100, kept as the exact fraction num/den (den > 0)
Pct(profit, total_cost) ==
    IF total_cost > 0
    THEN [num |-> profit * 100, den |-> total_cost]
    ELSE [num |-> 0, den |-> 1]

\* profit_pct >= m
PctGE(pct, m) == pct.num >= m * pct.den

----------------------------------------------------------------------------
(* Stack frames *)

\* _calculate_crafting_cost_internal, about to resolve reagent number i
CalcFrame(recipe) ==
    [fn |-> "calc", recipe |-> recipe, i |-> 1,
     total_cost |-> 0, total_cost_7d |-> 0,
     reagent_costs |-> << >>, missing_prices |-> << >>]

\* get_best_reagent_price: at "lookup" before the cache and vendor checks,
\* at "market" once _get_craft_price_for_reagent has returned `craft`
GbrpFrame(reagent_id) ==
    [fn |-> "gbrp", reagent_id |-> reagent_id, at |-> "lookup",
     craft |-> << NoneV, NoneV >>]

\* _get_craft_price_for_reagent, inside its try block
GcpFrame(reagent_id) == [fn |-> "gcp", reagent_id |-> reagent_id]

Top == stack[Len(stack)]

Pop(stk) == SubSeq(stk, 1, Len(stk) - 1)

\* a call that needs n more frames fits under the recursion limit
CanCall(n) == Len(stack) + n <= recursion_limit

\* the innermost frame with an active `except RecursionError`
HasHandler(stk) == \E k \in 1..Len(stk) : stk[k].fn = "gcp"

Handler(stk) ==
    CHOOSE k \in 1..Len(stk) :
        /\ stk[k].fn = "gcp"
        /\ \A j \in 1..Len(stk) : stk[j].fn = "gcp" => j <= k

\* _get_craft_price_for_reagent returns `craft` to the get_best_reagent_price
\* frame below it; stk ends with that gcp frame
GcpReturns(stk, craft) ==
    [Pop(stk) EXCEPT ![Len(stk) - 1].craft = craft,
                     ![Len(stk) - 1].at = "market"]

\* except RecursionError: return None, None -- the frames above the handler
\* are unwound
Caught(stk) ==
    GcpReturns(SubSeq(stk, 1, Handler(stk)), << NoneV, NoneV >>)

\* Mutant: no handler catches the RecursionError.
RaiseRecursionError_uncaught ==
    /\ stack' = << >>
    /\ pc' = "fault"

\* a RecursionError raised with the frames of `stack` live
RaiseRecursionError ==
    IF HasHandler(stack)
    THEN /\ stack' = Caught(stack)
         /\ pc' = pc
    ELSE /\ stack' = << >>
         /\ pc' = "fault"

\* Mutant: the 7-day total accumulates the current-basis reagent cost.
AddReagentCost_7d(f, unit_price, unit_price_7d, source) ==
    LET reagent         == f.recipe.reagents[f.i]
        reagent_cost    == Val(unit_price) * reagent.quantity
    IN  IF IsNone(unit_price)
        THEN [f EXCEPT !.missing_prices = Append(@, reagent.id),
                       !.i = @ + 1]
        ELSE [f EXCEPT !.total_cost = @ + reagent_cost,
                       !.total_cost_7d = @ + reagent_cost,
                       !.reagent_costs =
                           Append(@, [name          |-> reagent.id,
                                      quantity      |-> reagent.quantity,
                                      unit_price    |-> Val(unit_price),
                                      unit_price_7d |-> Val(unit_price_7d),
                                      total_cost    |-> reagent_cost,
                                      source        |-> source]),
                       !.i = @ + 1]

\* the loop body of _calculate_crafting_cost_internal after
\* get_best_reagent_price returned, for the calc frame f
AddReagentCost(f, unit_price, unit_price_7d, source) ==
    LET reagent         == f.recipe.reagents[f.i]
        reagent_cost    == Val(unit_price) * reagent.quantity
        reagent_cost_7d == Val(unit_price_7d) * reagent.quantity
    IN  IF IsNone(unit_price)
        THEN [f EXCEPT !.missing_prices = Append(@, reagent.id),
                       !.i = @ + 1]
        ELSE [f EXCEPT !.total_cost = @ + reagent_cost,
                       !.total_cost_7d = @ + reagent_cost_7d,
                       !.reagent_costs =
                           Append(@, [name          |-> reagent.id,
                                      quantity      |-> reagent.quantity,
                                      unit_price    |-> Val(unit_price),
                                      unit_price_7d |-> Val(unit_price_7d),
                                      total_cost    |-> reagent_cost,
                                      source        |-> source]),
                       !.i = @ + 1]

\* get_best_reagent_price returns to the calc frame that ends stk
GbrpReturns(stk, unit_price, unit_price_7d, source) ==
    [stk EXCEPT ![Len(stk)] = AddReagentCost(@, unit_price, unit_price_7d, source)]

\* cost_cache[reagent_id] = {...}
CachePut(cache, reagent_id, unit_price, unit_price_7d, source) ==
    [x \in DOMAIN cache \cup {reagent_id} |->
        IF x = reagent_id
        THEN [unit_price |-> unit_price, unit_price_7d |-> unit_price_7d,
              source |-> source]
        ELSE cache[x]]

\* Mutant: a cache hit returns the current price for the 7-day price too.
CacheHit_current(cached) ==
    << Some(cached.unit_price), Some(cached.unit_price), cached.source >>

\* a cache hit of get_best_reagent_price: the cached triple
CacheHit(cached) ==
    << Some(cached.unit_price), Some(cached.unit_price_7d), cached.source >>

\* Mutant: the totals are returned even when a reagent price is missing.
CraftPrice_partial(craft_analysis) ==
    << Some(craft_analysis.total_cost), Some(craft_analysis.total_cost_7d) >>

\* _get_craft_price_for_reagent on the analysis of the reagent's recipe:
\* (None, None) when a price is missing, else the two totals
CraftPrice(craft_analysis) ==
    IF craft_analysis.missing_prices # << >>
    THEN << NoneV, NoneV >>
    ELSE << Some(craft_analysis.total_cost), Some(craft_analysis.total_cost_7d) >>

\* Mutant: without a market series of the crafted item the function returns
\* early, before the cost breakdown is filled in.
Analysis_early(f, d) ==
    LET crafted_data == d[f.recipe.id]
        price        == CurrentAnd7d(crafted_data)
        profit       == Val(price[1]) - f.total_cost
        profit_7d    == Val(price[2]) - f.total_cost_7d
        costs        == [recipe_id      |-> f.recipe.id,
                         total_cost     |-> f.total_cost,
                         total_cost_7d  |-> f.total_cost_7d,
                         reagent_costs  |-> f.reagent_costs,
                         missing_prices |-> f.missing_prices]
    IN  IF crafted_data = << >>
        THEN [recipe_id        |-> f.recipe.id,
              total_cost       |-> 0,
              total_cost_7d    |-> 0,
              reagent_costs    |-> << >>,
              missing_prices   |-> << >>,
              current_price    |-> NoneV,
              current_price_7d |-> NoneV,
              profit           |-> NoneV,
              profit_pct       |-> NoneV,
              profit_7d        |-> NoneV,
              profit_7d_pct    |-> NoneV]
        ELSE costs @@ [current_price    |-> price[1],
                       current_price_7d |-> price[2],
                       profit           |-> Some(profit),
                       profit_pct       |-> Some(Pct(profit, f.total_cost)),
                       profit_7d        |-> Some(profit_7d),
                       profit_7d_pct    |-> Some(Pct(profit_7d, f.total_cost_7d))]

\* the tail of _calculate_crafting_cost_internal: the crafted item's own
\* market price, the profit figures and the returned dict
Analysis(f, d) ==
    LET crafted_data == d[f.recipe.id]
        price        == CurrentAnd7d(crafted_data)
        profit       == Val(price[1]) - f.total_cost
        profit_7d    == Val(price[2]) - f.total_cost_7d
        costs        == [recipe_id      |-> f.recipe.id,
                         total_cost     |-> f.total_cost,
                         total_cost_7d  |-> f.total_cost_7d,
                         reagent_costs  |-> f.reagent_costs,
                         missing_prices |-> f.missing_prices]
    IN  IF crafted_data = << >>
        THEN costs @@ [current_price    |-> NoneV,
                       current_price_7d |-> NoneV,
                       profit           |-> NoneV,
                       profit_pct       |-> NoneV,
                       profit_7d        |-> NoneV,
                       profit_7d_pct    |-> NoneV]
        ELSE costs @@ [current_price    |-> price[1],
                       current_price_7d |-> price[2],
                       profit           |-> Some(profit),
                       profit_pct       |-> Some(Pct(profit, f.total_cost)),
                       profit_7d        |-> Some(profit_7d),
                       profit_7d_pct    |-> Some(Pct(profit_7d, f.total_cost_7d))]

RECURSIVE InsertByProfit_pct(_, _)
\* Mutant: the list is ordered by profit percentage.
InsertByProfit_pct(sorted, x) ==
    IF sorted = << >> THEN << x >>
    ELSE IF Val(sorted[1].profit_pct).num * Val(x.profit_pct).den
                >= Val(x.profit_pct).num * Val(sorted[1].profit_pct).den
         THEN << sorted[1] >> \o InsertByProfit_pct(Tail(sorted), x)
         ELSE << x >> \o sorted

RECURSIVE InsertByProfit(_, _)
\* x placed after every element whose profit is >= its own
InsertByProfit(sorted, x) ==
    IF sorted = << >> THEN << x >>
    ELSE IF Val(sorted[1].profit) >= Val(x.profit)
         THEN << sorted[1] >> \o InsertByProfit(Tail(sorted), x)
         ELSE << x >> \o sorted

RECURSIVE SortByProfit(_)
\* profitable.sort(key=lambda x: x["profit"], reverse=True): descending and
\* stable
SortByProfit(list) ==
    IF list = << >> THEN << >>
    ELSE InsertByProfit(SortByProfit(Pop(list)), list[Len(list)])

----------------------------------------------------------------------------
(* Initial state: the configuration files and the interpreter's limit *)

\* a file of the market data directory: whether it exists, whether read_csv
\* can parse it, its header line and its data lines (prices in copper)
File(exists, readable, header, rows) ==
    [exists |-> exists, readable |-> readable, header |-> header, rows |-> rows]

\* the header save_to_csv writes
FullHeader == << "timestamp", "bid", "min_buy", "avg_price", "available" >>

\* a data directory without any file
NoFiles == [i \in Items |-> File(FALSE, FALSE, << >>, << >>)]

Init ==
    /\ recipes \in Catalogs
    /\ vendor_items \in VendorTables
    /\ recursion_limit \in RecursionLimits
    /\ df = [i \in Items |-> << >>]
    /\ call = "none"
    /\ pc = "idle"
    /\ stack = << >>
    /\ cost_cache = EmptyMap
    /\ result = NoneV
    /\ min_profit_pct = 0
    /\ batch_i = 0
    /\ analyses = << >>
    /\ profitable = << >>
    /\ files = NoFiles
    /\ warned = << >>

----------------------------------------------------------------------------
(* Top-level calls *)

\* Mutant: the cache outlives the call (a module-level dictionary).
calculate_crafting_cost_shared(recipe, d) ==
    /\ pc # "running"
    /\ df' = d
    /\ call' = "single"
    /\ pc' = "running"
    /\ cost_cache' = cost_cache
    /\ stack' = << CalcFrame(recipe) >>
    /\ result' = NoneV
    /\ min_profit_pct' = 0
    /\ batch_i' = 0
    /\ analyses' = << >>
    /\ profitable' = << >>
    /\ UNCHANGED config

\* calculate_crafting_cost(recipe, df): a fresh cache, then the internal
\* function on the recipe.  What an earlier call returned is no longer held.
calculate_crafting_cost(recipe, d) ==
    /\ pc # "running"
    /\ df' = d
    /\ call' = "single"
    /\ pc' = "running"
    /\ cost_cache' = EmptyMap
    /\ stack' = << CalcFrame(recipe) >>
    /\ result' = NoneV
    /\ min_profit_pct' = 0
    /\ batch_i' = 0
    /\ analyses' = << >>
    /\ profitable' = << >>
    /\ UNCHANGED config

\* get_profitable_recipes(df, min_profit_pct): a fresh cache shared by the
\* whole loop over the catalog
get_profitable_recipes(d, m) ==
    /\ pc # "running"
    /\ df' = d
    /\ call' = "batch"
    /\ cost_cache' = EmptyMap
    /\ min_profit_pct' = m
    /\ analyses' = << >>
    /\ profitable' = << >>
    /\ IF recipes = << >>
       THEN /\ pc' = "done"
            /\ batch_i' = 0
            /\ stack' = << >>
       ELSE /\ pc' = "running"
            /\ batch_i' = 1
            /\ stack' = << CalcFrame(recipes[1]) >>
    /\ result' = NoneV
    /\ UNCHANGED config

----------------------------------------------------------------------------
(* Steps of the recursion *)

\* the running call executes in a frame of function fn
Running(fn) == pc = "running" /\ stack # << >> /\ Top.fn = fn

\* _calculate_crafting_cost_internal is in its loop over the reagents
AtLoop == Running("calc") /\ Top.i <= Len(Top.recipe.reagents)

\* the loop of _calculate_crafting_cost_internal is over
AtLoopEnd == Running("calc") /\ Top.i > Len(Top.recipe.reagents)

\* a nested call is at its tail, or the tail's table lookup does not fit
AtNestedEnd == AtLoopEnd /\ (Len(stack) > 1 \/ ~CanCall(MarketFrames))

\* the call made by the top-level function is at its tail
AtTopEnd == AtLoopEnd /\ Len(stack) = 1 /\ CanCall(MarketFrames)

\* get_best_reagent_price is before (at = "lookup") or after (at = "market")
\* its call of _get_craft_price_for_reagent
AtGbrp(at) == Running("gbrp") /\ Top.at = at

\* _get_craft_price_for_reagent has been entered
AtGcp == Running("gcp")

\* _calculate_crafting_cost_internal calls get_best_reagent_price for its
\* next reagent
CalcNextReagent ==
    /\ AtLoop
    /\ IF CanCall(1)
       THEN /\ stack' = Append(stack, GbrpFrame(Top.recipe.reagents[Top.i].id))
            /\ pc' = pc
       ELSE RaiseRecursionError
    /\ UNCHANGED << config, df, call, cost_cache, result, batchVars >>

\* get_best_reagent_price up to its call of _get_craft_price_for_reagent:
\* the cache hit, the vendor price, or the call
GbrpLookup ==
    /\ AtGbrp("lookup")
    /\ LET reagent_id == Top.reagent_id
           cached == cost_cache[reagent_id]
           vendor_price == get_vendor_price(reagent_id)
       IN  IF reagent_id \in DOMAIN cost_cache
           THEN /\ stack' = GbrpReturns(Pop(stack), CacheHit(cached)[1],
                                        CacheHit(cached)[2], CacheHit(cached)[3])
                /\ pc' = pc
                /\ cost_cache' = cost_cache
           ELSE IF ~CanCall(VendorFrames)
           THEN /\ RaiseRecursionError
                /\ cost_cache' = cost_cache
           ELSE IF ~IsNone(vendor_price)
           THEN /\ cost_cache' = CachePut(cost_cache, reagent_id, Val(vendor_price),
                                          Val(vendor_price), "vendor")
                /\ stack' = GbrpReturns(Pop(stack), vendor_price, vendor_price,
                                        "vendor")
                /\ pc' = pc
           ELSE IF ~CanCall(1)
           THEN /\ RaiseRecursionError
                /\ cost_cache' = cost_cache
           ELSE /\ stack' = Append(stack, GcpFrame(reagent_id))
                /\ pc' = pc
                /\ cost_cache' = cost_cache
    /\ UNCHANGED << config, df, call, result, batchVars >>

\* _get_craft_price_for_reagent: no recipe, or the recursive call inside try
GcpEntry ==
    /\ AtGcp
    /\ LET recipe_lookup == build_recipe_lookup(recipes)
       IN  IF Top.reagent_id \notin DOMAIN recipe_lookup
           THEN /\ stack' = GcpReturns(stack, << NoneV, NoneV >>)
                /\ pc' = pc
           ELSE IF CanCall(1)
           THEN /\ stack' = Append(stack, CalcFrame(recipe_lookup[Top.reagent_id]))
                /\ pc' = pc
           ELSE RaiseRecursionError
    /\ UNCHANGED << config, df, call, cost_cache, result, batchVars >>

\* a nested _calculate_crafting_cost_internal finishes and
\* _get_craft_price_for_reagent turns its analysis into the craft price
CalcReturn ==
    /\ AtNestedEnd
    /\ IF ~CanCall(MarketFrames)
       THEN RaiseRecursionError
       ELSE /\ stack' = GcpReturns(Pop(stack), CraftPrice(Analysis(Top, df)))
            /\ pc' = pc
    /\ UNCHANGED << config, df, call, cost_cache, result, batchVars >>

\* get_best_reagent_price after the craft price: the market price, the
\* choice, the cache write and the return into the caller's loop
GbrpChoose ==
    /\ AtGbrp("market")
    /\ IF ~CanCall(MarketFrames)
       THEN /\ RaiseRecursionError
            /\ cost_cache' = cost_cache
       ELSE LET market == _get_market_price_for_reagent(Top.reagent_id, df)
                best   == _choose_best_price(Top.craft[1], Top.craft[2],
                                             market[1], market[2])
            IN  /\ cost_cache' =
                       IF ~IsNone(best[1])
                       THEN CachePut(cost_cache, Top.reagent_id, Val(best[1]),
                                     Val(best[2]), best[3])
                       ELSE cost_cache
                /\ stack' = GbrpReturns(Pop(stack), best[1], best[2], best[3])
                /\ pc' = pc
    /\ UNCHANGED << config, df, call, result, batchVars >>

\* calculate_crafting_cost returns the analysis of its recipe
SingleReturn ==
    /\ AtTopEnd
    /\ call = "single"
    /\ result' = Some(Analysis(Top, df))
    /\ stack' = << >>
    /\ pc' = "done"
    /\ UNCHANGED << config, df, call, cost_cache, batchVars >>

\* Mutant: the filter does not look at the missing list.
IsProfitable_anyMissing(analysis, m) ==
    /\ ~IsNone(analysis.profit)
    /\ PctGE(Val(analysis.profit_pct), m)

\* the profitability filter of get_profitable_recipes
IsProfitable(analysis, m) ==
    /\ ~IsNone(analysis.profit)
    /\ analysis.missing_prices = << >>
    /\ PctGE(Val(analysis.profit_pct), m)

\* one turn of the loop of get_profitable_recipes: filter the analysis just
\* computed, then go on to the next recipe or sort and return
BatchStep ==
    /\ AtTopEnd
    /\ call = "batch"
    /\ LET analysis == Analysis(Top, df)
           kept == IF IsProfitable(analysis, min_profit_pct)
                   THEN Append(profitable, analysis)
                   ELSE profitable
       IN  /\ analyses' = Append(analyses, analysis)
           /\ IF batch_i < Len(recipes)
              THEN /\ batch_i' = batch_i + 1
                   /\ stack' = << CalcFrame(recipes[batch_i + 1]) >>
                   /\ profitable' = kept
                   /\ pc' = pc
              ELSE /\ batch_i' = batch_i
                   /\ stack' = << >>
                   /\ profitable' = SortByProfit(kept)
                   /\ pc' = "done"
    /\ UNCHANGED << config, df, call, cost_cache, result, min_profit_pct >>

Next ==
    \/ \E k \in 1..Len(recipes), d \in MarketTables :
           calculate_crafting_cost(recipes[k], d)
    \/ \E d \in MarketTables, m \in MinPcts : get_profitable_recipes(d, m)
    \/ CalcNextReagent
    \/ GbrpLookup
    \/ GcpEntry
    \/ CalcReturn
    \/ GbrpChoose
    \/ SingleReturn
    \/ BatchStep

Spec == Init /\ [][Next]_vars

----------------------------------------------------------------------------
(* Market statistics (analyze_market_data.py)                              *)
(*                                                                         *)
(* The functions are pure: each takes the market table and returns a       *)
(* dict.  Averages are exact fractions num/den; a timestamp is a day       *)
(* number, and day 0 is a Monday.                                          *)

\* threshold_pct: float = 5
DefaultThreshold == 5

\* pd.Timedelta(days=3)
Days3 == 3

\* daily_prices["count"] >= 3
MinSamples == 3

Frac(n, d) == [num |-> n, den |-> d]

\* comparisons of fractions with positive denominators
FracLT(a, b) == a.num * b.den < b.num * a.den

FracGE(a, b) == ~FracLT(a, b)

FracNeg(a) == Frac(0 - a.num, a.den)

FracAbs(a) == IF a.num < 0 THEN FracNeg(a) ELSE a

\* float truthiness: 0.0 is false
Truthy(a) == a.num # 0

\* rows["avg_price"].mean() of a non-empty selection
FracMean(rows) == Frac(SumSeq([k \in 1..Len(rows) |-> rows[k].avg_price]), Len(rows))

RECURSIVE RowsBetween(_, _, _)
\* rows.loc[(rows.index >= lo) & (rows.index < hi)]
RowsBetween(rows, lo, hi) ==
    IF rows = <<>> THEN <<>>
    ELSE IF rows[1].ts >= lo /\ rows[1].ts < hi
         THEN <<rows[1]>> \o RowsBetween(Tail(rows), lo, hi)
         ELSE RowsBetween(Tail(rows), lo, hi)

\* One item's rows of the market table as the fetcher's files hold them: in
\* ascending order of timestamp.  Where the code divides by an average the
\* average is positive.
StatSeries ==
    { <<>>,
      << Row(40, 0) >>,
      << Row(0, 8), Row(37, 4), Row(39, 4), Row(40, 5) >>,
      << Row(20, 6), Row(34, 0), Row(40, 0) >>,
      << Row(33, 10), Row(38, 10), Row(40, 8) >>,
      << Row(19, 2), Row(26, 4), Row(33, 3), Row(40, 8) >>,
      << Row(38, 20), Row(40, 19) >>,
      << Row(5, 4), Row(12, 4), Row(19, 4), Row(20, 1), Row(21, 9) >>,
      << Row(0, 3), Row(1, 5), Row(7, 3), Row(8, 6), Row(14, 4), Row(15, 6) >>,
      << Row(0, 4), Row(4, 4), Row(7, 4), Row(11, 4), Row(14, 4), Row(18, 4) >> }

StatTables == [Items -> StatSeries]

\* the thresholds a caller passes
Thresholds == { DefaultThreshold, 25 }

\* items.json: the item ids in file order
ItemNames == << 1, 2, 3 >>

\* index.day_name()
DayNames == << "Monday", "Tuesday", "Wednesday", "Thursday", "Friday",
               "Saturday", "Sunday" >>

day_name(ts) == DayNames[(ts % 7) + 1]

\* the group keys of groupby(day_name()), which sorts them
GroupOrder == << "Friday", "Monday", "Saturday", "Sunday", "Thursday",
                 "Tuesday", "Wednesday" >>

RECURSIVE RowsOfDay(_, _)
RowsOfDay(rows, day) ==
    IF rows = <<>> THEN <<>>
    ELSE IF day_name(rows[1].ts) = day
         THEN <<rows[1]>> \o RowsOfDay(Tail(rows), day)
         ELSE RowsOfDay(Tail(rows), day)

\* round(2) of the fraction a (a >= 0), in hundredths: to nearest, halves to
\* even
Round2(a) ==
    LET q == (100 * a.num) \div a.den
        r == (100 * a.num) % a.den
    IN  IF 2 * r < a.den THEN q
        ELSE IF 2 * r > a.den THEN q + 1
        ELSE IF q % 2 = 0 THEN q ELSE q + 1

\* the "mean" column of daily_prices for a weekday, in hundredths
DayMean(item_df, day) == Round2(FracMean(RowsOfDay(item_df, day)))

\* Mutant: every weekday with an observation is a valid day.
analyze_daily_patterns_all(item_df) ==
    LET valid_days == { k \in 1..Len(GroupOrder) :
                           Len(RowsOfDay(item_df, GroupOrder[k])) >= 1 }
        mean(k)    == DayMean(item_df, GroupOrder[k])
        \* sort_values keeps the group order among equal means
        buy  == CHOOSE k \in valid_days :
                    /\ \A j \in valid_days : mean(k) <= mean(j)
                    /\ \A j \in valid_days : j < k => mean(j) > mean(k)
        sell == CHOOSE k \in valid_days :
                    /\ \A j \in valid_days : mean(k) >= mean(j)
                    /\ \A j \in valid_days : j < k => mean(j) < mean(k)
    IN  IF valid_days = {}
        THEN [best_buy_day     |-> "N/A",
              best_buy_price   |-> Frac(0, 1),
              best_sell_day    |-> "N/A",
              best_sell_price  |-> Frac(0, 1),
              potential_profit |-> Frac(0, 1)]
        ELSE [best_buy_day     |-> GroupOrder[buy],
              best_buy_price   |-> Frac(mean(buy), 100),
              best_sell_day    |-> GroupOrder[sell],
              best_sell_price  |-> Frac(mean(sell), 100),
              potential_profit |-> Frac((mean(sell) - mean(buy)) * 100, mean(buy))]

\* Mutant: the best sell day is taken from the ascending order too.
analyze_daily_patterns_ascending(item_df) ==
    LET valid_days == { k \in 1..Len(GroupOrder) :
                           Len(RowsOfDay(item_df, GroupOrder[k])) >= MinSamples }
        mean(k)    == DayMean(item_df, GroupOrder[k])
        \* sort_values keeps the group order among equal means
        buy  == CHOOSE k \in valid_days :
                    /\ \A j \in valid_days : mean(k) <= mean(j)
                    /\ \A j \in valid_days : j < k => mean(j) > mean(k)
        sell == buy
    IN  IF valid_days = {}
        THEN [best_buy_day     |-> "N/A",
              best_buy_price   |-> Frac(0, 1),
              best_sell_day    |-> "N/A",
              best_sell_price  |-> Frac(0, 1),
              potential_profit |-> Frac(0, 1)]
        ELSE [best_buy_day     |-> GroupOrder[buy],
              best_buy_price   |-> Frac(mean(buy), 100),
              best_sell_day    |-> GroupOrder[sell],
              best_sell_price  |-> Frac(mean(sell), 100),
              potential_profit |-> Frac((mean(sell) - mean(buy)) * 100, mean(buy))]

\* analyze_daily_patterns
analyze_daily_patterns(item_df) ==
    LET valid_days == { k \in 1..Len(GroupOrder) :
                           Len(RowsOfDay(item_df, GroupOrder[k])) >= MinSamples }
        mean(k)    == DayMean(item_df, GroupOrder[k])
        \* sort_values keeps the group order among equal means
        buy  == CHOOSE k \in valid_days :
                    /\ \A j \in valid_days : mean(k) <= mean(j)
                    /\ \A j \in valid_days : j < k => mean(j) > mean(k)
        sell == CHOOSE k \in valid_days :
                    /\ \A j \in valid_days : mean(k) >= mean(j)
                    /\ \A j \in valid_days : j < k => mean(j) < mean(k)
    IN  IF valid_days = {}
        THEN [best_buy_day     |-> "N/A",
              best_buy_price   |-> Frac(0, 1),
              best_sell_day    |-> "N/A",
              best_sell_price  |-> Frac(0, 1),
              potential_profit |-> Frac(0, 1)]
        ELSE [best_buy_day     |-> GroupOrder[buy],
              best_buy_price   |-> Frac(mean(buy), 100),
              best_sell_day    |-> GroupOrder[sell],
              best_sell_price  |-> Frac(mean(sell), 100),
              potential_profit |-> Frac((mean(sell) - mean(buy)) * 100, mean(buy))]

\* Mutant: the 3-day window includes the latest observation.
analyze_buy_sell_now_closed(d, item_name) ==
    LET item_df        == d[item_name]
        latest_price   == item_df[Len(item_df)].avg_price
        latest_time    == item_df[Len(item_df)].ts
        three_days_ago == latest_time - Days3
        three_day_data == RowsBetween(item_df, three_days_ago, latest_time + 1)
        avg_3d         == FracMean(three_day_data)
    IN  IF item_df = <<>> THEN EmptyMap
        ELSE IF three_day_data = <<>> THEN EmptyMap
        ELSE [item_name     |-> item_name,
              current_price |-> latest_price,
              avg_3d        |-> avg_3d,
              pct_diff      |-> Frac((latest_price * avg_3d.den - avg_3d.num) * 100,
                                     avg_3d.num),
              price_diff    |-> Frac(latest_price * avg_3d.den - avg_3d.num,
                                     avg_3d.den),
              last_updated  |-> latest_time]

\* analyze_buy_sell_now: the last row against the mean of the rows of the 3
\* days before it; {} without rows or without rows in that window
analyze_buy_sell_now(d, item_name) ==
    LET item_df        == d[item_name]
        latest_price   == item_df[Len(item_df)].avg_price
        latest_time    == item_df[Len(item_df)].ts
        three_days_ago == latest_time - Days3
        three_day_data == RowsBetween(item_df, three_days_ago, latest_time)
        avg_3d         == FracMean(three_day_data)
    IN  IF item_df = <<>> THEN EmptyMap
        ELSE IF three_day_data = <<>> THEN EmptyMap
        ELSE [item_name     |-> item_name,
              current_price |-> latest_price,
              avg_3d        |-> avg_3d,
              pct_diff      |-> Frac((latest_price * avg_3d.den - avg_3d.num) * 100,
                                     avg_3d.num),
              price_diff    |-> Frac(latest_price * avg_3d.den - avg_3d.num,
                                     avg_3d.den),
              last_updated  |-> latest_time]

\* analyze_item: {} without rows, else the averages, the trend and the daily
\* patterns
analyze_item(d, item_name) ==
    LET item_df     == d[item_name]
        avg_30d     == FracMean(item_df)
        cutoff_date == IndexMax(item_df) - Days7
        avg_7d      == FracMean(SelectRows(item_df, cutoff_date))
        trend       == IF Truthy(avg_7d) /\ Truthy(avg_30d)
                       THEN Frac((avg_7d.num * avg_30d.den - avg_30d.num * avg_7d.den) * 100,
                                 avg_30d.num * avg_7d.den)
                       ELSE Frac(0, 1)
        daily_patterns == analyze_daily_patterns(item_df)
    IN  IF item_df = <<>> THEN EmptyMap
        ELSE [item_name       |-> item_name,
              avg_30d         |-> avg_30d,
              avg_7d          |-> avg_7d,
              trend           |-> trend,
              best_buy_day    |-> daily_patterns.best_buy_day,
              best_buy_price  |-> daily_patterns.best_buy_price,
              best_sell_day   |-> daily_patterns.best_sell_day,
              best_sell_price |-> daily_patterns.best_sell_price,
              flip_profit     |-> daily_patterns.potential_profit]

\* the sort key of an opportunity: abs(price_diff) in the buy list,
\* price_diff in the sell list
SortKey(x, side) == IF side = "buy" THEN FracAbs(x.price_diff) ELSE x.price_diff

RECURSIVE InsertByKey(_, _, _)
\* x placed after every element whose key is >= its own
InsertByKey(sorted, x, side) ==
    IF sorted = << >> THEN << x >>
    ELSE IF FracGE(SortKey(sorted[1], side), SortKey(x, side))
         THEN << sorted[1] >> \o InsertByKey(Tail(sorted), x, side)
         ELSE << x >> \o sorted

RECURSIVE SortByKey(_, _)
\* list.sort(key=..., reverse=True): descending and stable
SortByKey(list, side) ==
    IF list = << >> THEN << >>
    ELSE InsertByKey(SortByKey(Pop(list), side), list[Len(list)], side)

RECURSIVE Opportunities(_, _, _, _)
\* the loop of get_buy_sell_opportunities over the first n items: the buy
\* list (side = "buy") or the sell list, in item order
Opportunities(d, n, threshold_pct, side) ==
    IF n = 0 THEN << >>
    ELSE LET before   == Opportunities(d, n - 1, threshold_pct, side)
             analysis == analyze_buy_sell_now(d, ItemNames[n])
         IN  IF analysis = EmptyMap THEN before
             ELSE IF FracLT(analysis.pct_diff, Frac(0 - threshold_pct, 1))
                  THEN (IF side = "buy" THEN Append(before, analysis) ELSE before)
             ELSE IF FracLT(Frac(threshold_pct, 1), analysis.pct_diff)
                  THEN (IF side = "sell" THEN Append(before, analysis) ELSE before)
             ELSE before

\* get_buy_sell_opportunities: (buy_opportunities, sell_opportunities)
get_buy_sell_opportunities(d, threshold_pct) ==
    << SortByKey(Opportunities(d, Len(ItemNames), threshold_pct, "buy"), "buy"),
       SortByKey(Opportunities(d, Len(ItemNames), threshold_pct, "sell"), "sell") >>

\* the market table the statistics are asked about
MarketInit ==
    /\ recipes = << >>
    /\ vendor_items = EmptyMap
    /\ recursion_limit = MinLimit
    /\ df \in StatTables
    /\ call = "none"
    /\ pc = "idle"
    /\ stack = << >>
    /\ cost_cache = EmptyMap
    /\ result = NoneV
    /\ min_profit_pct = 0
    /\ batch_i = 0
    /\ analyses = << >>
    /\ profitable = << >>
    /\ files = NoFiles
    /\ warned = << >>

\* a call of one of the statistics functions returns fn's value
Returns(fn, value) ==
    /\ call' = fn
    /\ pc' = "done"
    /\ result' = Some(value)
    /\ UNCHANGED << config, df, stack, cost_cache, batchVars >>

CallAnalyzeItem(item_name) ==
    Returns(<< "analyze_item", item_name >>, analyze_item(df, item_name))

CallAnalyzeBuySellNow(item_name) ==
    Returns(<< "analyze_buy_sell_now", item_name >>,
            analyze_buy_sell_now(df, item_name))

CallGetBuySellOpportunities(threshold_pct) ==
    Returns(<< "get_buy_sell_opportunities", threshold_pct >>,
            get_buy_sell_opportunities(df, threshold_pct))

MarketNext ==
    \/ \E item_name \in Items : CallAnalyzeItem(item_name)
    \/ \E item_name \in Items : CallAnalyzeBuySellNow(item_name)
    \/ \E threshold_pct \in Thresholds : CallGetBuySellOpportunities(threshold_pct)

MarketSpec == MarketInit /\ [][MarketNext]_vars

----------------------------------------------------------------------------
(* Loading the market table (market_data.py)                               *)
(*                                                                         *)
(* load_all_market_data of the package, src/goblinomincs/market_data.py,   *)
(* and the function of the same name of the script src/market_data.py.     *)

\* 1 gold = 10000 copper
CopperPerGold == 10000

\* names=[...] of read_csv
names == << "timestamp", "bid", "min_buy", "avg_price", "available" >>

\* the files an item can have: none; one read_csv cannot parse; one written
\* without the avg_price and available columns; complete ones
FileChoices ==
    { File(FALSE, FALSE, << >>, << >>),
      File(TRUE, FALSE, << >>, << >>),
      File(TRUE, TRUE, << "timestamp", "bid", "min_buy" >>,
           << << 1, 20000, 30000 >> >>),
      File(TRUE, TRUE, FullHeader,
           << << 1, 20000, 30000, 25000, 5 >> >>),
      File(TRUE, TRUE, FullHeader,
           << << 1, 10000, 10000, 10000, 1 >>, << 2, 0, 40000, 30000, 2 >> >>) }

Directories == [Items -> FileChoices]

\* the value read_csv gives the j-th named column of a data line: NaN where
\* the line has no j-th field
Cell(line, j) == IF j <= Len(line) THEN Some(line[j]) ELSE NoneV

\* pd.read_csv(csv_path, names=names, header=0, index_col="timestamp"): the
\* header line is dropped and the columns are called by `names`
read_csv(file) ==
    [columns |-> Tail(names),
     rows    |-> [k \in 1..Len(file.rows) |->
                    [timestamp |-> file.rows[k][1],
                     bid       |-> Cell(file.rows[k], 2),
                     min_buy   |-> Cell(file.rows[k], 3),
                     avg_price |-> Cell(file.rows[k], 4),
                     available |-> Cell(file.rows[k], 5)]]]

\* all(col in df.columns for col in ["bid", "min_buy", "avg_price"])
HasPriceColumns(frame) ==
    \A col \in { "bid", "min_buy", "avg_price" } :
        \E k \in 1..Len(frame.columns) : frame.columns[k] = col

\* .div(10000) of a price cell
ToGold(cell) == IF IsNone(cell) THEN NoneV ELSE Some(Frac(Val(cell), CopperPerGold))

\* the frame of one item as it is appended to all_data
Tagged(frame, item_id) ==
    [k \in 1..Len(frame.rows) |->
        [timestamp |-> frame.rows[k].timestamp,
         bid       |-> ToGold(frame.rows[k].bid),
         min_buy   |-> ToGold(frame.rows[k].min_buy),
         avg_price |-> ToGold(frame.rows[k].avg_price),
         available |-> frame.rows[k].available,
         weekday   |-> day_name(frame.rows[k].timestamp),
         item_name |-> item_id,
         item_id   |-> item_id]]

Warning(item_id, kind) == [item_id |-> item_id, kind |-> kind]

RECURSIVE LoadItems(_, _)
\* the loop over item_names.items() after its first n items: the frames
\* appended to all_data, concatenated, how many they are, and the warnings
LoadItems(dir, n) ==
    IF n = 0 THEN [table |-> << >>, loaded |-> 0, warnings |-> << >>]
    ELSE LET before  == LoadItems(dir, n - 1)
             item_id == ItemNames[n]
             file    == dir[item_id]
             frame   == read_csv(file)
             skip(kind) == [before EXCEPT
                              !.warnings = Append(@, Warning(item_id, kind))]
         IN  IF ~file.exists THEN skip("missing")
             ELSE IF ~file.readable THEN skip("error")
             ELSE IF ~HasPriceColumns(frame) THEN skip("columns")
             ELSE [before EXCEPT !.table  = @ \o Tagged(frame, item_id),
                                 !.loaded = @ + 1]

\* the outcome of a call: the exception it raises, or "none" and the table
Outcome(raised, table) == [raised |-> raised, table |-> table]

\* a directory as the loader finds it
LoaderInit ==
    /\ recipes = << >>
    /\ vendor_items = EmptyMap
    /\ recursion_limit = MinLimit
    /\ df = [i \in Items |-> << >>]
    /\ call = "none"
    /\ pc = "idle"
    /\ stack = << >>
    /\ cost_cache = EmptyMap
    /\ result = NoneV
    /\ min_profit_pct = 0
    /\ batch_i = 0
    /\ analyses = << >>
    /\ profitable = << >>
    /\ files \in Directories
    /\ warned = << >>

\* load_all_market_data (src/goblinomincs/market_data.py)
load_all_market_data ==
    LET done == LoadItems(files, Len(ItemNames))
    IN  /\ call = "none"
        /\ call' = << "load_all_market_data", "goblinomincs.market_data" >>
        /\ pc' = "done"
        /\ warned' = warned \o done.warnings
        /\ result' = IF done.loaded = 0
                     THEN Some(Outcome("FileNotFoundError", << >>))
                     ELSE Some(Outcome("none", done.table))
        /\ UNCHANGED << recipes, vendor_items, recursion_limit, files, df,
                        stack, cost_cache, batchVars >>

\* load_all_market_data (src/market_data.py): the test of all_data is inside
\* the loop, after the append, and pd.concat of an empty list raises
\* ValueError
script_load_all_market_data ==
    LET done == LoadItems(files, Len(ItemNames))
    IN  /\ call = "none"
        /\ call' = << "load_all_market_data", "market_data" >>
        /\ pc' = "done"
        /\ warned' = warned \o done.warnings
        /\ result' = IF done.loaded = 0
                     THEN Some(Outcome("ValueError", << >>))
                     ELSE Some(Outcome("none", done.table))
        /\ UNCHANGED << recipes, vendor_items, recursion_limit, files, df,
                        stack, cost_cache, batchVars >>

LoaderNext ==
    \/ load_all_market_data
    \/ script_load_all_market_data

LoaderSpec == LoaderInit /\ [][LoaderNext]_vars

----------------------------------------------------------------------------
(* What the claims speak about *)

\* the calls of _calculate_crafting_cost_internal still running
CalcFrames == { stack[k] : k \in { j \in 1..Len(stack) : stack[j].fn = "calc" } }

\* the analyses returned to the caller of the running or last top-level call
Returned ==
    (IF call = "single" /\ ~IsNone(result) THEN { Val(result) } ELSE { })
    \cup { analyses[k] : k \in 1..Len(analyses) }

\* every cost breakdown, finished or under construction
Reports == CalcFrames \cup Returned

Entries(x) == { x.reagent_costs[k] : k \in 1..Len(x.reagent_costs) }

Missing(x) == { x.missing_prices[k] : k \in 1..Len(x.missing_prices) }

\* the id of the recipe a cost breakdown belongs to
RecipeIdOf(x) == IF "recipe" \in DOMAIN x THEN x.recipe.id ELSE x.recipe_id

ReagentsOf(item) ==
    LET rs == build_recipe_lookup(recipes)[item].reagents
    IN  { rs[k] : k \in 1..Len(rs) }

HasRecipe(item) == item \in DOMAIN build_recipe_lookup(recipes)

HasMarket(item) == df[item] # << >>

\* the avg_price of the item's newest observation
MarketNow(item) ==
    LET rows == df[item]
    IN  rows[CHOOSE k \in 1..Len(rows) : rows[k].ts = IndexMax(rows)].avg_price

----------------------------------------------------------------------------
(* C1 *)

IsVendor(item) == item \in DOMAIN vendor_items

\* the craft cost of an item whose reagents are all market-priced leaves
LeafCraftCost(item) ==
    LET rs == build_recipe_lookup(recipes)[item].reagents
    IN  SumSeq([k \in 1..Len(rs) |-> MarketNow(rs[k].id) * rs[k].quantity])

\* C1: every reagent that is in the vendor table is reported with source
\* 'vendor' and with unit price and 7-day unit price equal to the fixed vendor
\* price, is never reported missing, is reported in every returned analysis of
\* a recipe that lists it, and its own recipe is never resolved (no
\* _get_craft_price_for_reagent frame exists for it).
C1_VendorPrecedence ==
    /\ \A x \in Reports : \A e \in Entries(x) :
           IsVendor(e.name) =>
               /\ e.source = "vendor"
               /\ e.unit_price = vendor_items[e.name]
               /\ e.unit_price_7d = vendor_items[e.name]
    /\ \A x \in Reports : \A n \in Missing(x) : ~IsVendor(n)
    /\ \A x \in Returned : \A r \in ReagentsOf(x.recipe_id) :
           IsVendor(r.id) => \E e \in Entries(x) : e.name = r.id
    /\ \A k \in 1..Len(stack) :
           stack[k].fn = "gcp" => ~IsVendor(stack[k].reagent_id)

\* a returned analysis reports a vendor reagent whose market price and whose
\* craft cost are both below the vendor price
C1_Witness ==
    \E x \in Returned : \E e \in Entries(x) :
        /\ IsVendor(e.name)
        /\ e.source = "vendor"
        /\ HasMarket(e.name)
        /\ MarketNow(e.name) < e.unit_price
        /\ HasRecipe(e.name)
        /\ ReagentsOf(e.name) # { }
        /\ \A r \in ReagentsOf(e.name) : HasMarket(r.id) /\ ~IsVendor(r.id)
        /\ LeafCraftCost(e.name) < e.unit_price

----------------------------------------------------------------------------
(* C2, C3 *)

\* get_best_reagent_price holds the craft price of a non-vendor reagent and
\* is about to look up the market price and choose
ChoosePending == AtGbrp("market") /\ CanCall(MarketFrames)

PendingCraft == Top.craft

PendingMarket == _get_market_price_for_reagent(Top.reagent_id, df)

\* the calc frame the choice returns into, before and after the step
CallerBefore == stack[Len(stack) - 1]

CallerAfter == stack'[Len(stack')]

\* the step reports the pending reagent with this price, 7-day price and source
ReportsPending(price, price_7d, source) ==
    /\ Len(stack') = Len(stack) - 1
    /\ CallerAfter.missing_prices = CallerBefore.missing_prices
    /\ CallerAfter.reagent_costs =
           Append(CallerBefore.reagent_costs,
                  [name          |-> Top.reagent_id,
                   quantity      |-> CallerBefore.recipe.reagents[CallerBefore.i].quantity,
                   unit_price    |-> Val(price),
                   unit_price_7d |-> Val(price_7d),
                   total_cost    |-> Val(price) *
                                     CallerBefore.recipe.reagents[CallerBefore.i].quantity,
                   source        |-> source])

\* the step leaves the pending reagent unresolved
PendingUnresolved ==
    /\ Len(stack') = Len(stack) - 1
    /\ CallerAfter.reagent_costs = CallerBefore.reagent_costs
    /\ CallerAfter.missing_prices = Append(CallerBefore.missing_prices, Top.reagent_id)
    /\ cost_cache' = cost_cache

\* C2: for a non-vendor reagent with a craft cost and a market price the
\* reported unit price is the smaller of the two current prices, the source
\* names the side chosen and the 7-day price is that side's; with one side
\* only that side is reported; with neither the reagent is unresolved.
C2_CheapestOfTwo ==
    [][ ChoosePending =>
          LET c == PendingCraft
              m == PendingMarket
          IN  /\ (~IsNone(c[1]) /\ ~IsNone(m[1]) /\ Val(c[1]) < Val(m[1]))
                     => ReportsPending(c[1], c[2], "crafted")
              /\ (~IsNone(c[1]) /\ ~IsNone(m[1]) /\ Val(m[1]) < Val(c[1]))
                     => ReportsPending(m[1], m[2], "auction")
              /\ (~IsNone(c[1]) /\ ~IsNone(m[1]) /\ Val(m[1]) = Val(c[1]))
                     => \/ ReportsPending(c[1], c[2], "crafted")
                        \/ ReportsPending(m[1], m[2], "auction")
              /\ (~IsNone(c[1]) /\ IsNone(m[1]))
                     => ReportsPending(c[1], c[2], "crafted")
              /\ (IsNone(c[1]) /\ ~IsNone(m[1]))
                     => ReportsPending(m[1], m[2], "auction")
              /\ (IsNone(c[1]) /\ IsNone(m[1])) => PendingUnresolved
      ]_vars

\* the craft price is lower on the current basis and higher on the 7-day basis
C2_Witness ==
    /\ ChoosePending
    /\ ~IsNone(PendingCraft[1])
    /\ ~IsNone(PendingMarket[1])
    /\ Val(PendingCraft[1]) < Val(PendingMarket[1])
    /\ Val(PendingCraft[2]) > Val(PendingMarket[2])

PendingTie ==
    /\ ChoosePending
    /\ ~IsNone(PendingCraft[1])
    /\ ~IsNone(PendingMarket[1])
    /\ Val(PendingCraft[1]) = Val(PendingMarket[1])

\* C3 as stated: on a tie the reagent is reported as 'auction' with the
\* market's 7-day average.
C3_TieIsAuction ==
    [][ PendingTie => ReportsPending(PendingMarket[1], PendingMarket[2], "auction")
      ]_vars

\* C3: on a tie the choice falls on one named side for every reagent in every
\* pass; that side is 'crafted', with the craft path's 7-day cost.
C3_TieIsCrafted ==
    [][ PendingTie => ReportsPending(PendingCraft[1], PendingCraft[2], "crafted")
      ]_vars

\* a tie whose two sides differ on the 7-day basis
C3_Witness ==
    /\ PendingTie
    /\ Val(PendingCraft[2]) # Val(PendingMarket[2])

----------------------------------------------------------------------------
(* C4 *)

ReagentIds(item) == { r.id : r \in ReagentsOf(item) }

\* a's recipe requires b and b's recipe requires a, neither a vendor item
Cycle2(a, b) ==
    /\ a # b
    /\ HasRecipe(a) /\ HasRecipe(b)
    /\ ~IsVendor(a) /\ ~IsVendor(b)
    /\ b \in ReagentIds(a)
    /\ a \in ReagentIds(b)

\* a is on a two-item cycle and neither item of the cycle has a market price
DeadCycleItem(a) ==
    \E b \in Items : Cycle2(a, b) /\ ~HasMarket(a) /\ ~HasMarket(b)

\* no fault reaches the caller, and an item of a cycle without market prices
\* is never cached and is listed as missing by every analysis returned for a
\* recipe that needs it
C4_CycleOutcome ==
    /\ pc # "fault"
    /\ \A a \in Items :
           DeadCycleItem(a) =>
               /\ a \notin DOMAIN cost_cache
               /\ \A x \in Returned :
                      a \in ReagentIds(x.recipe_id) => a \in Missing(x)

\* how far a frame has got: the reagent a calc frame is at, the half of
\* get_best_reagent_price a gbrp frame is in
FrameProgress(f) ==
    IF f.fn = "calc" THEN f.i
    ELSE IF f.fn = "gbrp" /\ f.at = "market" THEN 1
    ELSE 0

\* the position of the execution in its call tree: the batch loop's index,
\* then the progress of every frame from the outermost inwards
Progress(i, stk) == << i >> \o [k \in 1..Len(stk) |-> FrameProgress(stk[k])]

\* s comes strictly before t in the lexicographic order
LexLess(s, t) ==
    \/ Len(s) < Len(t) /\ \A j \in 1..Len(s) : s[j] = t[j]
    \/ \E k \in 1..Len(s) :
           /\ k <= Len(t)
           /\ s[k] < t[k]
           /\ \A j \in 1..(k - 1) : s[j] = t[j]

\* one of the steps of the recursion can be taken
CanStep ==
    \/ AtLoop
    \/ AtGbrp("lookup")
    \/ AtGcp
    \/ AtNestedEnd
    \/ AtGbrp("market")
    \/ AtTopEnd /\ call \in { "single", "batch" }

\* C4: with A requiring B and B requiring A, every call terminates and
\* returns without a fault, and when neither has a market price both are
\* reported unresolved.  Termination: the stack never exceeds the recursion
\* limit, a running call always has a next step, and every step moves the
\* execution strictly forward in the lexicographic order of its call tree,
\* which is finite.
C4_CycleSafety ==
    /\ []C4_CycleOutcome
    /\ [](Len(stack) <= recursion_limit)
    /\ [](pc = "running" => CanStep)
    /\ [][ (pc = "running" /\ pc' = "running")
               => LexLess(Progress(batch_i, stack), Progress(batch_i', stack')) ]_vars

\* a call on a recipe of a cycle without market prices has returned, and the
\* reagent is in its missing list
C4_Witness ==
    /\ pc = "done"
    /\ \E x \in Returned : \E a \in ReagentIds(x.recipe_id) :
           DeadCycleItem(a) /\ a \in Missing(x)

----------------------------------------------------------------------------
(* C5 *)

\* the items get_best_reagent_price is resolving on the current call path,
\* outermost first
CallPath ==
    LET idx == { k \in 1..Len(stack) : stack[k].fn = "gbrp" }
    IN  [k \in idx |-> stack[k].reagent_id]

\* C5: resolution is never entered for an item that is already in progress on
\* the current call path: no item id occurs twice on a call path.
C5_NoReentry ==
    \A j, k \in DOMAIN CallPath :
        j # k => CallPath[j] # CallPath[k]

----------------------------------------------------------------------------
(* C6 *)

DirectReagents(item) == IF HasRecipe(item) THEN ReagentIds(item) ELSE { }

RECURSIVE ReachableIn(_, _)
\* the items needed, directly or not, by the items of S, through at most n
\* levels of recipes
ReachableIn(S, n) ==
    IF n = 0 THEN { }
    ELSE LET next == UNION { DirectReagents(i) : i \in S }
         IN  next \cup ReachableIn(next, n - 1)

Needs(item) == ReachableIn({ item }, Cardinality(Items))

\* no recipe needs its own output, directly or through other recipes
Acyclic == \A i \in Items : i \notin Needs(i)

\* every item without a recipe has a vendor or a market price
LeavesPriced == \A i \in Items : ~HasRecipe(i) => IsVendor(i) \/ HasMarket(i)

\* the quantity-weighted sum of the cached prices of the item's reagents
CachedCraftCost(item) ==
    LET rs == build_recipe_lookup(recipes)[item].reagents
    IN  SumSeq([k \in 1..Len(rs) |-> cost_cache[rs[k].id].unit_price * rs[k].quantity])

\* C6: in an acyclic catalog whose leaves all have a price, every craftable
\* item gets a craft cost, equal to the quantity-weighted sum of its reagents'
\* resolved prices, whatever the depth of the chain.
C6_DeepChainsCraftable ==
    (Acyclic /\ LeavesPriced /\ AtGbrp("market") /\ HasRecipe(Top.reagent_id))
        => /\ ~IsNone(Top.craft[1])
           /\ ReagentIds(Top.reagent_id) \subseteq DOMAIN cost_cache
           /\ Val(Top.craft[1]) = CachedCraftCost(Top.reagent_id)

----------------------------------------------------------------------------
(* C7 *)

\* a nested analysis with a missing reagent price is about to be returned to
\* _get_craft_price_for_reagent
PartialCraftPending ==
    /\ AtNestedEnd
    /\ Len(stack) > 1
    /\ CanCall(MarketFrames)
    /\ Top.missing_prices # << >>

\* C7: when a reagent of X's recipe is unresolved, the craft cost handed to
\* get_best_reagent_price for X is None on both bases (not zero, not the
\* partial sum), and X is then reported from its market price if it has one
\* and left unresolved otherwise.
C7_UnresolvedPropagates ==
    /\ [][ PartialCraftPending =>
              /\ Len(stack') = Len(stack) - 2
              /\ stack'[Len(stack')].fn = "gbrp"
              /\ stack'[Len(stack')].reagent_id = Top.recipe.id
              /\ stack'[Len(stack')].at = "market"
              /\ stack'[Len(stack')].craft = << NoneV, NoneV >>
              /\ cost_cache' = cost_cache ]_vars
    /\ [][ (ChoosePending /\ IsNone(PendingCraft[1])) =>
              IF IsNone(PendingMarket[1])
              THEN PendingUnresolved
              ELSE ReportsPending(PendingMarket[1], PendingMarket[2], "auction") ]_vars

\* the partial sum of the resolvable reagents is positive, one reagent is
\* missing, and the item has a market price to fall back on
C7_Witness ==
    /\ PartialCraftPending
    /\ Top.total_cost > 0
    /\ HasMarket(Top.recipe.id)

----------------------------------------------------------------------------
(* C8 *)

\* C8: in one batch pass, any two analyses that report the same reagent
\* report it with the same unit price, 7-day unit price and source.
C8_SharedReagentConsistent ==
    call = "batch" =>
        \A j, k \in 1..Len(analyses) :
            \A e \in Entries(analyses[j]) : \A g \in Entries(analyses[k]) :
                e.name = g.name =>
                    /\ e.unit_price = g.unit_price
                    /\ e.unit_price_7d = g.unit_price_7d
                    /\ e.source = g.source

\* two analyses of a finished batch share a reagent whose 7-day price
\* differs from its current price
C8_Witness ==
    /\ call = "batch"
    /\ pc = "done"
    /\ \E j, k \in 1..Len(analyses) :
           /\ j # k
           /\ \E e \in Entries(analyses[j]) : \E g \in Entries(analyses[k]) :
                  /\ e.name = g.name
                  /\ e.unit_price # e.unit_price_7d

----------------------------------------------------------------------------
(* C9 *)

\* the 7-day average of the item in the table of the running call
Market7d(item) ==
    LET rows == df[item]
    IN  Mean(SelectRows(rows, IndexMax(rows) - Days7))

\* the cached auction prices are those of the table passed to this call
CacheFromCurrentTable ==
    \A i \in DOMAIN cost_cache :
        cost_cache[i].source = "auction" =>
            /\ HasMarket(i)
            /\ cost_cache[i].unit_price = MarketNow(i)
            /\ cost_cache[i].unit_price_7d = Market7d(i)

\* the reported auction prices are those of the table passed to this call
ReportsFromCurrentTable ==
    \A x \in Reports : \A e \in Entries(x) :
        e.source = "auction" =>
            /\ HasMarket(e.name)
            /\ e.unit_price = MarketNow(e.name)
            /\ e.unit_price_7d = Market7d(e.name)

\* C9: every top-level call starts with an empty cache, so nothing cached by
\* an earlier call is read, and a call reports the prices of the market table
\* it was given only.
C9_FreshCachePerCall ==
    /\ [][ (pc # "running" /\ pc' = "running") => cost_cache' = EmptyMap ]_vars
    /\ [](CacheFromCurrentTable /\ ReportsFromCurrentTable)

\* a finished call has left an auction price in its cache, from which a later
\* call with another market table starts
C9_Witness ==
    /\ pc = "done"
    /\ \E i \in DOMAIN cost_cache :
           /\ cost_cache[i].source = "auction"
           /\ \E x \in Returned : \E e \in Entries(x) : e.name = i

----------------------------------------------------------------------------
(* C10 *)

\* C10: every reported reagent's total cost is unit price x quantity, with
\* the quantity the recipe gives it, and the recipe's total_cost and
\* total_cost_7d are the sums of unit price x quantity and of 7-day unit
\* price x quantity over the reported reagents.
C10_QuantityScaling ==
    \A x \in Reports :
        /\ \A e \in Entries(x) :
               /\ e.total_cost = e.unit_price * e.quantity
               /\ \E r \in ReagentsOf(RecipeIdOf(x)) :
                      r.id = e.name /\ r.quantity = e.quantity
        /\ x.total_cost =
               SumSeq([k \in 1..Len(x.reagent_costs) |->
                          x.reagent_costs[k].unit_price * x.reagent_costs[k].quantity])
        /\ x.total_cost_7d =
               SumSeq([k \in 1..Len(x.reagent_costs) |->
                          x.reagent_costs[k].unit_price_7d * x.reagent_costs[k].quantity])

\* a returned analysis with two reagents, one of them with quantity 2 and a
\* 7-day price that differs from its current price
C10_Witness ==
    \E x \in Returned :
        /\ Len(x.reagent_costs) = 2
        /\ \E e \in Entries(x) :
               /\ e.quantity = 2
               /\ e.unit_price_7d # e.unit_price

----------------------------------------------------------------------------
(* C11 *)

\* the fraction pct is the value num / den * 100
IsPctOf(pct, num, den) == pct.den > 0 /\ pct.num * den = num * 100 * pct.den

\* C11: for a returned analysis whose crafted item has a market series and
\* whose total cost is positive, profit = current sell price - total_cost and
\* profit_pct = profit / total_cost * 100; the 7-day figures are the same
\* computation on the 7-day sell average and total_cost_7d.
C11_ProfitFigures ==
    \A x \in Returned :
        HasMarket(x.recipe_id) =>
            /\ x.total_cost > 0 =>
                   /\ x.current_price = Some(MarketNow(x.recipe_id))
                   /\ x.profit = Some(MarketNow(x.recipe_id) - x.total_cost)
                   /\ IsPctOf(Val(x.profit_pct),
                              MarketNow(x.recipe_id) - x.total_cost, x.total_cost)
            /\ x.total_cost_7d > 0 =>
                   /\ x.current_price_7d = Some(Market7d(x.recipe_id))
                   /\ x.profit_7d = Some(Market7d(x.recipe_id) - x.total_cost_7d)
                   /\ IsPctOf(Val(x.profit_7d_pct),
                              Market7d(x.recipe_id) - x.total_cost_7d, x.total_cost_7d)

\* twice a market reagent plus once a vendor item, sold on the market with a
\* 7-day average that differs from the current price
C11_Witness ==
    \E x \in Returned :
        /\ HasMarket(x.recipe_id)
        /\ x.missing_prices = << >>
        /\ MarketNow(x.recipe_id) # Market7d(x.recipe_id)
        /\ \E e \in Entries(x) : e.source = "auction" /\ e.quantity = 2
        /\ \E e \in Entries(x) : e.source = "vendor" /\ e.quantity = 1

----------------------------------------------------------------------------
(* C12 *)

\* C12: when the total cost on a basis is 0 and the crafted item has a
\* market price, the profit percentage on that basis is the defined value 0
\* (no division by zero) and the profit on that basis is the sell price.
C12_ZeroCostRoi ==
    \A x \in Returned :
        HasMarket(x.recipe_id) =>
            /\ x.total_cost = 0 =>
                   /\ ~IsNone(x.profit_pct)
                   /\ Val(x.profit_pct).den > 0
                   /\ Val(x.profit_pct).num = 0
                   /\ x.profit = Some(MarketNow(x.recipe_id))
            /\ x.total_cost_7d = 0 =>
                   /\ ~IsNone(x.profit_7d_pct)
                   /\ Val(x.profit_7d_pct).den > 0
                   /\ Val(x.profit_7d_pct).num = 0
                   /\ x.profit_7d = Some(Market7d(x.recipe_id))

\* a recipe without cost whose crafted item is sold on the market
C12_Witness ==
    \E x \in Returned :
        /\ HasMarket(x.recipe_id)
        /\ x.total_cost = 0
        /\ x.total_cost_7d = 0
        /\ MarketNow(x.recipe_id) > 0

----------------------------------------------------------------------------
(* C13 *)

\* the analysis a top-level return hands to the caller in this step
JustReturned ==
    IF call = "single" THEN Val(result') ELSE analyses'[Len(analyses')]

\* C13: the analysis returned for a recipe reports the accumulated
\* total_cost, total_cost_7d, per-reagent breakdown and missing list whether
\* or not the crafted item has a market series, and without a series its
\* current price, 7-day price, profit and profit percentage on both bases
\* are all null.
C13_NoSeriesStillCosts ==
    [][ AtTopEnd =>
           /\ JustReturned.recipe_id = Top.recipe.id
           /\ JustReturned.total_cost = Top.total_cost
           /\ JustReturned.total_cost_7d = Top.total_cost_7d
           /\ JustReturned.reagent_costs = Top.reagent_costs
           /\ JustReturned.missing_prices = Top.missing_prices
           /\ ~HasMarket(Top.recipe.id) =>
                  /\ IsNone(JustReturned.current_price)
                  /\ IsNone(JustReturned.current_price_7d)
                  /\ IsNone(JustReturned.profit)
                  /\ IsNone(JustReturned.profit_pct)
                  /\ IsNone(JustReturned.profit_7d)
                  /\ IsNone(JustReturned.profit_7d_pct) ]_vars

\* a recipe with a priced reagent and a missing one is about to be returned
\* and its crafted item has no market series
C13_Witness ==
    /\ AtTopEnd
    /\ ~HasMarket(Top.recipe.id)
    /\ Top.total_cost > 0
    /\ Top.total_cost_7d # Top.total_cost
    /\ Top.missing_prices # << >>

----------------------------------------------------------------------------
(* C14 *)

\* C14: a returned analysis with a non-empty missing list has null profit
\* and null profit percentage on both bases.
C14_MissingMeansNoProfit ==
    \A x \in Returned :
        x.missing_prices # << >> =>
            /\ IsNone(x.profit)
            /\ IsNone(x.profit_pct)
            /\ IsNone(x.profit_7d)
            /\ IsNone(x.profit_7d_pct)

----------------------------------------------------------------------------
(* C15 *)

\* an analysis has every reagent resolved, a profit, and a profit
\* percentage of at least m
Qualifies(x, m) ==
    /\ x.missing_prices = << >>
    /\ ~IsNone(x.profit)
    /\ Val(x.profit_pct).num >= m * Val(x.profit_pct).den

BatchDone == call = "batch" /\ pc = "done"

\* C15: the list get_profitable_recipes returns holds exactly the analyses
\* of the catalog's recipes that have an empty missing list, a profit and
\* profit_pct >= m, each once; a larger m admits no recipe the pass did not
\* return.
C15_FilterExact ==
    BatchDone =>
        /\ Len(analyses) = Len(recipes)
        /\ \A k \in 1..Len(recipes) : analyses[k].recipe_id = recipes[k].id
        /\ { profitable[k] : k \in 1..Len(profitable) }
               = { analyses[k] : k \in { j \in 1..Len(analyses) :
                                            Qualifies(analyses[j], min_profit_pct) } }
        /\ \A j, k \in 1..Len(profitable) :
               profitable[j].recipe_id = profitable[k].recipe_id => j = k
        /\ \A m \in MinPcts :
               m >= min_profit_pct =>
                   \A k \in 1..Len(analyses) :
                       Qualifies(analyses[k], m) =>
                           \E j \in 1..Len(profitable) : profitable[j] = analyses[k]

\* a finished pass that returned a recipe and left out one that has a profit
\* figure above the minimum but an unresolved reagent
C15_Witness ==
    /\ BatchDone
    /\ profitable # << >>
    /\ \E k \in 1..Len(analyses) :
           /\ analyses[k].missing_prices # << >>
           /\ analyses[k].total_cost > 0
           /\ ~IsNone(analyses[k].profit)
           /\ PctGE(Val(analyses[k].profit_pct), min_profit_pct)

----------------------------------------------------------------------------
(* C16 *)

\* C16: the list get_profitable_recipes returns is in descending order of
\* current-basis profit, for every minimum percentage passed.
C16_SortedByProfit ==
    BatchDone =>
        \A k \in 1..(Len(profitable) - 1) :
            Val(profitable[k].profit) >= Val(profitable[k + 1].profit)

\* a pass with a negative minimum returned a loss-making recipe, and the
\* order by profit is not the catalog's order
C16_Witness ==
    /\ BatchDone
    /\ min_profit_pct < 0
    /\ \E j, k \in 1..Len(profitable) :
           /\ j < k
           /\ profitable[j].recipe_id > profitable[k].recipe_id
           /\ Val(profitable[j].profit) > Val(profitable[k].profit)
           /\ Val(profitable[k].profit) < 0

----------------------------------------------------------------------------
(* C17 - C20: what the market statistics are compared with *)

\* the statistics function fn has returned
Called(fn) == pc = "done" /\ call[1] = fn

\* the timestamp of the item's latest observation
LatestTime(item) == IndexMax(df[item])

\* the positions of the item's observations with lo <= timestamp < hi
RowsIn(item, lo, hi) ==
    { k \in 1..Len(df[item]) : df[item][k].ts >= lo /\ df[item][k].ts < hi }

\* the sum of avg_price over the observations at the positions ks
PriceSum(item, ks) ==
    SumSeq([k \in 1..Len(df[item]) |-> IF k \in ks THEN df[item][k].avg_price ELSE 0])

\* the 3 days before the latest observation, that observation excluded
Preceding3d(item) == RowsIn(item, LatestTime(item) - 3, LatestTime(item))

\* the item has a series and observations in the 3 days before the latest
HasSignal(item) == HasMarket(item) /\ Preceding3d(item) # {}

\* (latest - avg_3d) / avg_3d * 100 as a fraction, avg_3d being
\* PriceSum / Cardinality
Deviation(item) ==
    LET n == Cardinality(Preceding3d(item))
        s == PriceSum(item, Preceding3d(item))
    IN  Frac((MarketNow(item) * n - s) * 100, s)

\* the fractions a and b are the same number
FracEq(a, b) == a.num * b.den = b.num * a.den

\* the items of a list of opportunities
NamesIn(list) == { list[k].item_name : k \in 1..Len(list) }

----------------------------------------------------------------------------
(* C17 *)

\* C17: an item is in the buy list of get_buy_sell_opportunities exactly
\* when it has a signal and its deviation is <= -threshold, and in the sell
\* list exactly when it has a signal and its deviation is >= +threshold.
C17_InclusiveThreshold ==
    Called("get_buy_sell_opportunities") =>
        LET threshold == Frac(call[2], 1)
            buy       == NamesIn(Val(result)[1])
            sell      == NamesIn(Val(result)[2])
        IN  \A item \in Items :
                /\ item \in buy <=>
                       (HasSignal(item) /\ FracGE(FracNeg(threshold), Deviation(item)))
                /\ item \in sell <=>
                       (HasSignal(item) /\ FracGE(Deviation(item), threshold))

----------------------------------------------------------------------------
(* C18 *)

\* C18: analyze_buy_sell_now reports the latest observation's avg_price, the
\* mean of avg_price over the observations of the 3 days before it (itself
\* excluded), pct_diff = (latest - avg_3d) / avg_3d * 100 and price_diff =
\* latest - avg_3d; without a series or without observations in that window
\* it returns the empty result, and the item is in neither list of
\* get_buy_sell_opportunities.
C18_BuySellSignal ==
    /\ \A item \in Items :
           (Called("analyze_buy_sell_now") /\ call[2] = item) =>
               IF ~HasSignal(item)
               THEN Val(result) = EmptyMap
               ELSE LET r == Val(result)
                        n == Cardinality(Preceding3d(item))
                        s == PriceSum(item, Preceding3d(item))
                    IN  /\ r # EmptyMap
                        /\ r.item_name = item
                        /\ r.current_price = MarketNow(item)
                        /\ r.last_updated = LatestTime(item)
                        /\ FracEq(r.avg_3d, Frac(s, n))
                        /\ FracEq(r.pct_diff, Deviation(item))
                        /\ FracEq(r.price_diff, Frac(MarketNow(item) * n - s, n))
    /\ Called("get_buy_sell_opportunities") =>
           \A item \in Items :
               ~HasSignal(item) =>
                   /\ item \notin NamesIn(Val(result)[1])
                   /\ item \notin NamesIn(Val(result)[2])

\* the signal of an item with an observation exactly 3 days before the
\* latest one, an older one, and a latest price off the 3-day mean
C18_Witness ==
    \E item \in Items :
        /\ Called("analyze_buy_sell_now")
        /\ call[2] = item
        /\ HasSignal(item)
        /\ \E k \in Preceding3d(item) : df[item][k].ts = LatestTime(item) - 3
        /\ \E k \in 1..Len(df[item]) : df[item][k].ts < LatestTime(item) - 3
        /\ Val(result).pct_diff.num # 0

----------------------------------------------------------------------------
(* C19 *)

\* C19: analyze_item reports trend = (avg_7d - avg_30d) / avg_30d * 100 of
\* the averages it reports whenever avg_30d is not 0, also when avg_7d is 0
\* (trend -100), and trend 0 when avg_30d is 0.
C19_TrendDefined ==
    (Called("analyze_item") /\ Val(result) # EmptyMap) =>
        LET r == Val(result)
        IN  IF r.avg_30d.num # 0
            THEN FracEq(r.trend,
                        Frac((r.avg_7d.num * r.avg_30d.den - r.avg_30d.num * r.avg_7d.den) * 100,
                             r.avg_30d.num * r.avg_7d.den))
            ELSE r.trend.num = 0

----------------------------------------------------------------------------
(* C20 *)

\* the mean of avg_price over the item's observations not older than w days
\* before its latest one
TrailingMean(item, w) ==
    LET ks == RowsIn(item, LatestTime(item) - w, LatestTime(item) + 1)
    IN  Frac(PriceSum(item, ks), Cardinality(ks))

\* C20: avg_7d and avg_30d of analyze_item are the means of avg_price over
\* exactly the observations with timestamp >= the series' maximum timestamp
\* minus 7 and minus 30 days.
C20_TrailingWindows ==
    \A item \in Items :
        (Called("analyze_item") /\ call[2] = item /\ Val(result) # EmptyMap) =>
            /\ FracEq(Val(result).avg_7d, TrailingMean(item, 7))
            /\ FracEq(Val(result).avg_30d, TrailingMean(item, 30))

----------------------------------------------------------------------------
(* C23 *)

\* C23: within a pass a cache entry, once written, is never overwritten or
\* changed for the rest of the pass.
C23_CacheWriteOnce ==
    [][ (pc = "running" /\ pc' # "fault") =>
            \A i \in DOMAIN cost_cache :
                /\ i \in DOMAIN cost_cache'
                /\ cost_cache'[i] = cost_cache[i] ]_vars

----------------------------------------------------------------------------
(* C25 *)

\* the cache entry of item i records a price that was found for it
EntryResolved(i) ==
    LET e == cost_cache[i]
    IN  /\ e.unit_price \in Nat
        /\ e.unit_price_7d \in Nat
        /\ \/ e.source = "vendor" /\ IsVendor(i)
           \/ e.source = "crafted" /\ HasRecipe(i) /\ ~IsVendor(i)
           \/ e.source = "auction" /\ HasMarket(i) /\ ~IsVendor(i)

\* C25: every cache entry belongs to an item for which a vendor, craft or
\* market price was found and holds a non-null unit price, and a resolution
\* that ends unresolved writes no entry, so the item is resolved again at its
\* next reference.
C25_CacheOnlyResolved ==
    /\ [](\A i \in DOMAIN cost_cache : EntryResolved(i))
    /\ [][ (ChoosePending /\ IsNone(PendingCraft[1]) /\ IsNone(PendingMarket[1])) =>
               /\ cost_cache' = cost_cache
               /\ PendingUnresolved ]_vars
    /\ [][ (AtGbrp("lookup") /\ CanCall(VendorFrames) /\ CanCall(1)
                /\ Top.reagent_id \notin DOMAIN cost_cache
                /\ ~IsVendor(Top.reagent_id)) =>
               /\ cost_cache' = cost_cache
               /\ stack' = Append(stack, GcpFrame(Top.reagent_id)) ]_vars

\* an item ended unresolved earlier in the pass, has no cache entry, and is
\* referenced again
C25_Witness ==
    /\ AtGbrp("lookup")
    /\ CanCall(VendorFrames)
    /\ CanCall(1)
    /\ Top.reagent_id \notin DOMAIN cost_cache
    /\ cost_cache # EmptyMap
    /\ \E x \in Reports : Top.reagent_id \in Missing(x)

----------------------------------------------------------------------------
(* C30 *)

\* C30: an item is cached or reported as 'crafted' only with a craft cost
\* summed over a non-empty list of reagents; an item whose recipe lists no
\* reagents is never 'crafted' (at cost 0).
C30_NoFreeCraft ==
    /\ \A i \in DOMAIN cost_cache :
           cost_cache[i].source = "crafted" => ReagentsOf(i) # {}
    /\ \A x \in Reports : \A e \in Entries(x) :
           e.source = "crafted" => ReagentsOf(e.name) # {}

----------------------------------------------------------------------------
(* C24 *)

\* the item is on a cycle of recipes
OnCycle(item) == item \in Needs(item)

\* the item is neither on a cycle nor dependent on an item that is
OffCycles(item) == ~OnCycle(item) /\ \A j \in Needs(item) : ~OnCycle(j)

RECURSIVE CleanPrice(_)
\* (price, 7-day price, source) of an item off the cycles in a pass over the
\* catalog without the cycles: the vendor price, else the cheaper of the sum
\* of its reagents' prices and its market price, crafting on a tie
CleanPrice(item) ==
    LET rs     == build_recipe_lookup(recipes)[item].reagents
        sub    == [k \in 1..Len(rs) |-> CleanPrice(rs[k].id)]
        craft  == IF ~HasRecipe(item) THEN << NoneV, NoneV >>
                  ELSE IF \E k \in 1..Len(rs) : IsNone(sub[k][1])
                  THEN << NoneV, NoneV >>
                  ELSE << Some(SumSeq([k \in 1..Len(rs) |-> Val(sub[k][1]) * rs[k].quantity])),
                          Some(SumSeq([k \in 1..Len(rs) |-> Val(sub[k][2]) * rs[k].quantity])) >>
        market == IF HasMarket(item)
                  THEN << Some(MarketNow(item)), Some(Market7d(item)) >>
                  ELSE << NoneV, NoneV >>
    IN  IF IsVendor(item)
        THEN << Some(vendor_items[item]), Some(vendor_items[item]), "vendor" >>
        ELSE IF IsNone(craft[1]) /\ IsNone(market[1])
        THEN << NoneV, NoneV, "missing" >>
        ELSE IF ~IsNone(craft[1]) /\ (IsNone(market[1]) \/ Val(craft[1]) <= Val(market[1]))
        THEN << craft[1], craft[2], "crafted" >>
        ELSE << market[1], market[2], "auction" >>

\* the price reported for the item is the one of the pass without cycles
SameAsClean(item, unit_price, unit_price_7d, source) ==
    CleanPrice(item) = << Some(unit_price), Some(unit_price_7d), source >>

\* C24: in a pass over a catalog with a cycle, every item that is neither on
\* a cycle nor dependent on one is cached and reported with the price and
\* source it has in a pass over the catalog without the cycle, and is listed
\* as missing only if it has no price there.
C24_CycleIsolation ==
    ~Acyclic =>
        /\ \A i \in DOMAIN cost_cache :
               OffCycles(i) =>
                   SameAsClean(i, cost_cache[i].unit_price,
                               cost_cache[i].unit_price_7d, cost_cache[i].source)
        /\ \A x \in Reports :
               /\ \A e \in Entries(x) :
                      OffCycles(e.name) =>
                          SameAsClean(e.name, e.unit_price, e.unit_price_7d, e.source)
               /\ \A i \in Missing(x) :
                      OffCycles(i) => IsNone(CleanPrice(i)[1])

----------------------------------------------------------------------------
(* The resolver as functions of its arguments                              *)
(*                                                                         *)
(* The same code as the steps above, but each call evaluated as a whole:   *)
(* the value of a call made at a given stack depth under a given recursion *)
(* limit, with the cache it leaves behind.  ok = FALSE is a RecursionError *)
(* leaving the call.                                                       *)

Raised(cache) == [ok |-> FALSE, cache |-> cache]

RECURSIVE RunLoop(_, _, _, _)
RECURSIVE RunGbrp(_, _, _, _)
RECURSIVE RunGcp(_, _, _, _)

\* the loop of _calculate_crafting_cost_internal from the state f of its
\* frame, which is the depth-th frame of the stack
RunLoop(f, depth, cache, limit) ==
    IF f.i > Len(f.recipe.reagents)
    THEN [ok |-> TRUE, frame |-> f, cache |-> cache]
    ELSE IF depth + 1 > limit
    THEN Raised(cache)
    ELSE LET g == RunGbrp(f.recipe.reagents[f.i].id, depth + 1, cache, limit)
         IN  IF ~g.ok
             THEN Raised(g.cache)
             ELSE RunLoop(AddReagentCost(f, g.val[1], g.val[2], g.val[3]),
                          depth, g.cache, limit)

\* get_best_reagent_price called into the depth-th frame
RunGbrp(reagent_id, depth, cache, limit) ==
    LET vendor_price == get_vendor_price(reagent_id)
        craft        == RunGcp(reagent_id, depth + 1, cache, limit)
        market       == _get_market_price_for_reagent(reagent_id, df)
        best         == _choose_best_price(craft.val[1], craft.val[2],
                                           market[1], market[2])
    IN  IF reagent_id \in DOMAIN cache
        THEN [ok |-> TRUE, val |-> CacheHit(cache[reagent_id]), cache |-> cache]
        ELSE IF depth + VendorFrames > limit
        THEN Raised(cache)
        ELSE IF ~IsNone(vendor_price)
        THEN [ok    |-> TRUE,
              val   |-> << vendor_price, vendor_price, "vendor" >>,
              cache |-> CachePut(cache, reagent_id, Val(vendor_price),
                                 Val(vendor_price), "vendor")]
        ELSE IF depth + 1 > limit
        THEN Raised(cache)
        ELSE IF depth + MarketFrames > limit
        THEN Raised(craft.cache)
        ELSE [ok    |-> TRUE,
              val   |-> best,
              cache |-> IF ~IsNone(best[1])
                        THEN CachePut(craft.cache, reagent_id, Val(best[1]),
                                      Val(best[2]), best[3])
                        ELSE craft.cache]

\* _get_craft_price_for_reagent called into the depth-th frame; a
\* RecursionError below it is caught here
RunGcp(reagent_id, depth, cache, limit) ==
    LET recipe_lookup == build_recipe_lookup(recipes)
        loop == RunLoop(CalcFrame(recipe_lookup[reagent_id]), depth + 1, cache, limit)
    IN  IF reagent_id \notin DOMAIN recipe_lookup
        THEN [val |-> << NoneV, NoneV >>, cache |-> cache]
        ELSE IF depth + 1 > limit
        THEN [val |-> << NoneV, NoneV >>, cache |-> cache]
        ELSE IF ~loop.ok \/ depth + 1 + MarketFrames > limit
        THEN [val |-> << NoneV, NoneV >>, cache |-> loop.cache]
        ELSE [val |-> CraftPrice(Analysis(loop.frame, df)), cache |-> loop.cache]

\* calculate_crafting_cost(recipe, df) under the recursion limit `limit`
RunSingle(recipe, limit) ==
    LET loop == RunLoop(CalcFrame(recipe), 1, EmptyMap, limit)
    IN  IF loop.ok THEN Some(Analysis(loop.frame, df)) ELSE NoneV

\* a finished call of calculate_crafting_cost has returned what the whole-call
\* evaluation gives
SingleDone == call = "single" /\ pc = "done"

RunSingleAgrees ==
    SingleDone =>
        result = RunSingle(build_recipe_lookup(recipes)[Val(result).recipe_id],
                           recursion_limit)

----------------------------------------------------------------------------
(* C28: a batch pass against a call on its own                             *)

\* the k-th analysis of the batch pass is the analysis of the k-th recipe
\* computed by calculate_crafting_cost on its own
SameAsAlone(k) == Some(analyses[k]) = RunSingle(recipes[k], recursion_limit)

\* C28: for an acyclic catalog, the analysis computed for a recipe inside a
\* pass of get_profitable_recipes, with the cache the recipes before it have
\* filled, equals field by field the analysis calculate_crafting_cost returns
\* for that recipe alone with a fresh cache.
C28_BatchEqualsSingle ==
    (BatchDone /\ Acyclic) => \A k \in 1..Len(analyses) : SameAsAlone(k)

----------------------------------------------------------------------------
(* C29: the recursion limit and the result                                 *)

\* the prices, sources and missing list an analysis reports
Reported(analysis) ==
    << analysis.reagent_costs, analysis.missing_prices >>

\* the recipe calculate_crafting_cost has just analysed
SingleRecipe == build_recipe_lookup(recipes)[Val(result).recipe_id]

\* C29: when the catalog contains a cycle, the prices, sources and missing
\* list calculate_crafting_cost reports are the ones it reports for the same
\* recipe, catalog and market table under every other recursion limit.
C29_LimitIndependent ==
    (SingleDone /\ ~Acyclic) =>
        \A limit \in RecursionLimits :
            Reported(Val(result)) = Reported(Val(RunSingle(SingleRecipe, limit)))

----------------------------------------------------------------------------
(* C22: the loader's skip policy                                           *)

Loaded == pc = "done" /\ call[1] = "load_all_market_data"

\* the file lacks one of the price columns
LacksPriceColumns(file) ==
    \E col \in { "bid", "min_buy", "avg_price" } :
        \A k \in 1..Len(file.header) : file.header[k] # col

\* the item's file is there, parses and has the price columns
Loadable(item) ==
    /\ files[item].exists
    /\ files[item].readable
    /\ ~LacksPriceColumns(files[item])

\* the rows of the returned table that belong to the item
TableRows(item) ==
    { k \in 1..Len(Val(result).table) : Val(result).table[k].item_id = item }

WarningsFor(item) == { k \in 1..Len(warned) : warned[k].item_id = item }

\* C22: load_all_market_data skips every item whose file is absent,
\* unreadable or lacks the expected price columns, with one warning each,
\* and returns the rows of every other item; it raises, and then
\* FileNotFoundError, exactly when no item could be loaded.
C22_LoaderSkips ==
    Loaded =>
        /\ \A item \in Items :
               IF Loadable(item)
               THEN /\ WarningsFor(item) = { }
                    /\ \/ Val(result).raised # "none"
                       \/ Cardinality(TableRows(item)) = Len(files[item].rows)
               ELSE /\ Cardinality(WarningsFor(item)) = 1
                    /\ TableRows(item) = { }
        /\ (Val(result).raised # "none") <=> (\A item \in Items : ~Loadable(item))
        /\ Val(result).raised \in { "none", "FileNotFoundError" }

----------------------------------------------------------------------------
(* C21, C27: daily patterns                                                *)

\* the weekdays on which the item has at least MinSamples observations
QualifyingDays(item) ==
    { GroupOrder[k] : k \in { j \in 1..Len(GroupOrder) :
          Len(RowsOfDay(df[item], GroupOrder[j])) >= MinSamples } }

\* the weekdays on which the item has observations, but fewer
ThinDays(item) ==
    { GroupOrder[k] : k \in { j \in 1..Len(GroupOrder) :
          /\ RowsOfDay(df[item], GroupOrder[j]) # << >>
          /\ Len(RowsOfDay(df[item], GroupOrder[j])) < MinSamples } }

\* the mean of the item's prices on the weekday, unrounded
ExactDayMean(item, day) == FracMean(RowsOfDay(df[item], day))

\* analyze_item has returned the analysis of an item with observations
Analysed == Called("analyze_item") /\ Val(result) # EmptyMap

\* C21: the best buy day and the best sell day analyze_item reports are never
\* a weekday with fewer than 3 observations, whatever that weekday's mean.
C21_ThinDaysNeverChosen ==
    Analysed =>
        /\ Val(result).best_buy_day \notin ThinDays(call[2])
        /\ Val(result).best_sell_day \notin ThinDays(call[2])

\* a weekday with one observation is cheaper than every qualifying weekday
\* and another is dearer, and the days reported are qualifying ones
C21_Witness ==
    /\ Analysed
    /\ QualifyingDays(call[2]) # { }
    /\ \E thin \in ThinDays(call[2]) : \A day \in QualifyingDays(call[2]) :
           FracLT(ExactDayMean(call[2], thin), ExactDayMean(call[2], day))
    /\ \E thin \in ThinDays(call[2]) : \A day \in QualifyingDays(call[2]) :
           FracLT(ExactDayMean(call[2], day), ExactDayMean(call[2], thin))
    /\ Val(result).best_buy_day \in QualifyingDays(call[2])
    /\ Val(result).best_sell_day \in QualifyingDays(call[2])

----------------------------------------------------------------------------
(* C26: the current price and the order of the rows                        *)

\* One item's rows in an order other than that of their timestamps, as a
\* caller may pass them, next to the same rows in ascending order.
ShuffledSeries ==
    { << >>,
      << Row(5, 5), Row(10, 1) >>,
      << Row(10, 1), Row(5, 5) >>,
      << Row(10, 2), Row(8, 3), Row(9, 4) >> }

ShuffledTables == [Items -> ShuffledSeries]

\* a catalog and a market table in any row order
AnyOrderInit ==
    /\ recipes \in Catalogs
    /\ vendor_items = EmptyMap
    /\ recursion_limit = MinLimit + MaxExtraFrames
    /\ df \in ShuffledTables
    /\ call = "none"
    /\ pc = "idle"
    /\ stack = << >>
    /\ cost_cache = EmptyMap
    /\ result = NoneV
    /\ min_profit_pct = 0
    /\ batch_i = 0
    /\ analyses = << >>
    /\ profitable = << >>
    /\ files = NoFiles
    /\ warned = << >>

\* calculate_crafting_cost and analyze_buy_sell_now on that table
AnyOrderNext ==
    \/ \E k \in 1..Len(recipes) : calculate_crafting_cost(recipes[k], df)
    \/ CalcNextReagent
    \/ GbrpLookup
    \/ GcpEntry
    \/ CalcReturn
    \/ GbrpChoose
    \/ SingleReturn
    \/ \E item_name \in Items : pc # "running" /\ CallAnalyzeBuySellNow(item_name)

AnyOrderSpec == AnyOrderInit /\ [][AnyOrderNext]_vars

\* what the last call returned, when it is a crafting analysis
CraftingResult ==
    pc = "done" /\ ~IsNone(result) /\ "recipe_id" \in DOMAIN Val(result)

\* what the last call returned, when it is a buy/sell signal
SignalResult ==
    pc = "done" /\ ~IsNone(result) /\ "last_updated" \in DOMAIN Val(result)

\* C26: the price taken from the market table for a reagent bought at
\* auction, the current price of the crafted item and the current price of
\* the buy/sell signal are the avg_price of the item's observation with the
\* maximum timestamp, in whatever order the table holds the item's rows.
C26_CurrentIsNewest ==
    /\ CraftingResult =>
           LET r == Val(result)
           IN  /\ \A k \in 1..Len(r.reagent_costs) :
                      r.reagent_costs[k].source = "auction" =>
                          r.reagent_costs[k].unit_price = MarketNow(r.reagent_costs[k].name)
               /\ HasMarket(r.recipe_id) => r.current_price = Some(MarketNow(r.recipe_id))
    /\ SignalResult =>
           Val(result).current_price = MarketNow(Val(result).item_name)

====
